---- MODULE Spec2Model ----
(***************************************************************************)
(* The key manager of oroio (electron/main/keyManager.ts): the encrypted   *)
(* key store keys.enc, the active pointer file current, the usage cache    *)
(* list_cache.b64, and the operations addKey, removeKey, useKey,           *)
(* refreshCache and getKeyList that the keys:* IPC handlers call.          *)
(*                                                                         *)
(* Texts are sequences of one-character strings, so that split, trim and   *)
(* join are computed as the code computes them.  A nullable number is a    *)
(* sequence of at most one integer: <<>> is null, <<n>> is the number n.   *)
(***************************************************************************)
EXTENDS Integers, Sequences, FiniteSets, TLC

VARIABLES keysFile, currentFile, cacheFile, last, calls, accepted, log

vars == <<keysFile, currentFile, cacheFile, last, calls, accepted, log>>

(* ------------------------------ bounds -------------------------------- *)

\* add is not offered once the list it would leave is longer than this
MaxKeys == 2

\* a tampered cache file has at most this many lines after its two headers
MaxBodyLines == 2

\* handler invocations that can be in progress at the same time
MaxCalls == 2

\* handler invocations accepted in one run of the interleaved handlers
MaxAccepted == 2

(* ------------------------------ texts --------------------------------- *)

TAB == "\t"
NL == "\n"
SP == " "

\* JavaScript's white space, as far as the model's alphabet has it
IsSpace(c) == c \in {TAB, NL, SP}

\* String.prototype.trim
RECURSIVE TrimLeft(_)
TrimLeft(s) ==
  IF s # <<>> /\ IsSpace(Head(s)) THEN TrimLeft(Tail(s)) ELSE s

RECURSIVE TrimRight(_)
TrimRight(s) ==
  IF s # <<>> /\ IsSpace(s[Len(s)]) THEN TrimRight(SubSeq(s, 1, Len(s) - 1)) ELSE s

Trim(s) == TrimRight(TrimLeft(s))

\* String.prototype.split(sep) for a one-character separator: the pieces
\* between the separators, always at least one piece
RECURSIVE Split(_, _)
Split(s, sep) ==
  IF \E i \in 1..Len(s) : s[i] = sep
  THEN LET i == CHOOSE k \in 1..Len(s) :
                  s[k] = sep /\ \A j \in 1..(k - 1) : s[j] # sep
       IN  <<SubSeq(s, 1, i - 1)>> \o Split(SubSeq(s, i + 1, Len(s)), sep)
  ELSE <<s>>

\* Array.prototype.join(sep) on an array of texts
RECURSIVE Join(_, _)
Join(parts, sep) ==
  IF parts = <<>> THEN <<>>
  ELSE IF Len(parts) = 1 THEN parts[1]
  ELSE parts[1] \o <<sep>> \o Join(Tail(parts), sep)

\* Array.prototype.filter by the truthiness of line.trim()
RECURSIVE FilterNonBlank(_)
FilterNonBlank(lines) ==
  IF lines = <<>> THEN <<>>
  ELSE IF Trim(Head(lines)) # <<>>
       THEN <<Head(lines)>> \o FilterNonBlank(Tail(lines))
       ELSE FilterNonBlank(Tail(lines))

(* ------------------------------ files --------------------------------- *)

\* a file that does not exist (readFile rejects with ENOENT)
NoFile == [kind |-> "absent"]

\* crypto.randomBytes(8): the salt a save draws.  No operation reads a salt
\* but decryptKeys, which takes it from the blob it decrypts, so one value
\* stands for all of them.
Salts == {"s0"}

Magic == <<"S", "a", "l", "t", "e", "d", "_", "_">>

\* The store blob.  header is its first 8 bytes, salt the next 8, and the
\* rest is the AES-256-CBC ciphertext of text under the key derived from
\* salt; padOk says whether decipher.final() accepts the padding.
Blob(header, salt, text, padOk) ==
  [kind |-> "blob", header |-> header, salt |-> salt, text |-> text, padOk |-> padOk]

\* encryptKeys: one line "<key>\t" per key, joined by "\n", under a fresh salt
SerializeKeys(keys) ==
  Join([i \in 1..Len(keys) |-> Append(keys[i], TAB)], NL)

EncryptKeys(keys, salt) == Blob(Magic, salt, SerializeKeys(keys), TRUE)

\* the parse at the end of decryptKeys: split on "\n", drop the lines whose
\* trim is empty, keep of each line what stands before its first tab
ParseKeys(text) ==
  LET lines == FilterNonBlank(Split(text, NL))
  IN  [i \in 1..Len(lines) |-> Split(lines[i], TAB)[1]]

\* decryptKeys: throws on a wrong header and on invalid padding
DecryptKeys(data) ==
  IF data.header # Magic THEN [ok |-> FALSE, error |-> "Invalid encrypted file format", keys |-> <<>>]
  ELSE IF ~data.padOk THEN [ok |-> FALSE, error |-> "bad decrypt", keys |-> <<>>]
  ELSE [ok |-> TRUE, error |-> "", keys |-> ParseKeys(data.text)]

\* readEncryptedKeys followed by decryptKeys, as removeKey, useKey,
\* refreshCache and getKeyList run them: a missing file throws too
ReadKeys(file) ==
  IF file = NoFile THEN [ok |-> FALSE, error |-> "ENOENT", keys |-> <<>>]
  ELSE DecryptKeys(file)

\* readCurrentIndex: parseInt(content.trim(), 10) || 1, and 1 when the file
\* cannot be read.  The file holds the decimal text of the number written.
ReadCurrentIndex(file) ==
  IF file = NoFile THEN 1
  ELSE IF file.n = 0 THEN 1 ELSE file.n

\* fs.writeFile(CURRENT_FILE, String(index))
CurrentOf(index) == [kind |-> "current", n |-> index]

(* --------------------------- usage records ---------------------------- *)

\* a nullable number: null, or the number n
Null == <<>>
Num(n) == <<n>>

KeyUsage(balance, total, used, expires, raw) ==
  [balance |-> balance, total |-> total, used |-> used, expires |-> expires, raw |-> raw]

\* the record addKey puts where the old cache has no entry
UnknownUsage == KeyUsage(Null, Null, Null, "?", "")

\* a ?? b
Coalesce(a, b) == IF a # Null THEN a ELSE b

\* What the endpoint does with one request.
\*   Failed            fetch() rejects: network failure, or the 4 s abort
\*   Response(st, b)   a response with status st; b is what response.json()
\*                     resolves to, or BadBody when it rejects
Failed == [kind |-> "failed"]
BadBody == [kind |-> "badbody"]
Response(status, body) == [kind |-> "response", status |-> status, body |-> body]

\* a JSON body {usage: ...}; usage is Null when the member is missing/falsy
Body(usage) == [kind |-> "json", usage |-> usage]

\* a usage object: its four sections (each Null or <<section>>) and its three
\* expiry members (each Null or <<expiry value>>)
Usage(standard, premium, total, main, endDate, expire_at, expires_at) ==
  [standard |-> standard, premium |-> premium, total |-> total, main |-> main,
   endDate |-> endDate, expire_at |-> expire_at, expires_at |-> expires_at]

\* a section object: every member a nullable number
Section(totalAllowance, basicAllowance, allowance, orgTotalTokensUsed, used, tokensUsed, orgOverageUsed) ==
  [totalAllowance |-> totalAllowance, basicAllowance |-> basicAllowance,
   allowance |-> allowance, orgTotalTokensUsed |-> orgTotalTokensUsed,
   used |-> used, tokensUsed |-> tokensUsed, orgOverageUsed |-> orgOverageUsed]

\* an expiry value: a number (or an all-digits string) of epoch milliseconds,
\* or any other string
ExpMillis(n) == [t |-> "millis", n |-> n, s |-> ""]
ExpText(s) == [t |-> "text", n |-> 0, s |-> s]

\* a number (or an all-digits string) outside the range of Date: new
\* Date(ts * 1000) is an invalid date and toISOString() throws RangeError
ExpHuge == [t |-> "huge", n |-> 0, s |-> ""]

\* new Date(ms).toISOString().split('T')[0]: the date-only text of ms,
\* written here as the text of ms itself
IsoDate(ms) == "date:" \o ToString(ms)

\* response.ok
ResponseOk(resp) == resp.status \in 200..299

\* fetchUsage that takes a response with a bad status for a failed request:
\* it falls into the catch clause instead of returning http_<status>
FetchUsage_StatusAsError(resp) ==
  LET result == KeyUsage(Num(0), Num(0), Num(0), "?", "")
  IN  IF resp = Failed \/ ~ResponseOk(resp) \/ resp.body = BadBody
      THEN [result EXCEPT !.raw = "fetch_error", !.expires = "Error"]
      ELSE [result EXCEPT !.raw = "no_usage"]

\* fetchUsage without `used += section.orgOverageUsed ?? 0`
FetchUsage_IgnoresOverage(resp) ==
  LET result == KeyUsage(Num(0), Num(0), Num(0), "?", "")
  IN
  IF resp = Failed
  THEN [result EXCEPT !.raw = "fetch_error", !.expires = "Error"]
  ELSE IF ~ResponseOk(resp)
  THEN [result EXCEPT !.raw = "http_" \o ToString(resp.status),
                      !.expires = "Invalid key"]
  ELSE IF resp.body = BadBody
  THEN [result EXCEPT !.raw = "fetch_error", !.expires = "Error"]
  ELSE IF resp.body.usage = Null
  THEN [result EXCEPT !.raw = "no_usage"]
  ELSE
    LET usage == resp.body.usage[1]
        section == IF usage.standard # Null THEN usage.standard
                   ELSE IF usage.premium # Null THEN usage.premium
                   ELSE IF usage.total # Null THEN usage.total
                   ELSE usage.main
        sec == section[1]
        total == Coalesce(sec.totalAllowance, Coalesce(sec.basicAllowance, sec.allowance))
        used0 == Coalesce(sec.orgTotalTokensUsed,
                          Coalesce(sec.used, Coalesce(sec.tokensUsed, Num(0))))
        used == used0[1]
        withTotals ==
          IF section # Null /\ total # Null
          THEN [result EXCEPT !.total = total, !.used = Num(used),
                              !.balance = Num(total[1] - used)]
          ELSE result
        expRaw == Coalesce(usage.endDate, Coalesce(usage.expire_at, usage.expires_at))
    IN  IF expRaw = Null THEN withTotals
        ELSE IF expRaw[1].t = "huge"
        THEN [withTotals EXCEPT !.raw = "fetch_error", !.expires = "Error"]
        ELSE IF expRaw[1].t = "millis"
        THEN [withTotals EXCEPT !.expires = IsoDate(expRaw[1].n)]
        ELSE [withTotals EXCEPT !.expires = expRaw[1].s]

\* fetchUsage: the record for one request, whatever the endpoint does.  All
\* of it runs inside one try, so what throws ends in the catch clause, with
\* the members of result already assigned left as they are.
FetchUsage(resp) ==
  LET result == KeyUsage(Num(0), Num(0), Num(0), "?", "")
  IN
  IF resp = Failed
  THEN [result EXCEPT !.raw = "fetch_error", !.expires = "Error"]
  ELSE IF ~ResponseOk(resp)
  THEN [result EXCEPT !.raw = "http_" \o ToString(resp.status),
                      !.expires = "Invalid key"]
  ELSE IF resp.body = BadBody
  THEN [result EXCEPT !.raw = "fetch_error", !.expires = "Error"]
  ELSE IF resp.body.usage = Null
  THEN [result EXCEPT !.raw = "no_usage"]
  ELSE
    LET usage == resp.body.usage[1]
        section == IF usage.standard # Null THEN usage.standard
                   ELSE IF usage.premium # Null THEN usage.premium
                   ELSE IF usage.total # Null THEN usage.total
                   ELSE usage.main
        sec == section[1]
        total == Coalesce(sec.totalAllowance, Coalesce(sec.basicAllowance, sec.allowance))
        used0 == Coalesce(sec.orgTotalTokensUsed,
                          Coalesce(sec.used, Coalesce(sec.tokensUsed, Num(0))))
        used == used0[1] + Coalesce(sec.orgOverageUsed, Num(0))[1]
        withTotals ==
          IF section # Null /\ total # Null
          THEN [result EXCEPT !.total = total, !.used = Num(used),
                              !.balance = Num(total[1] - used)]
          ELSE result
        expRaw == Coalesce(usage.endDate, Coalesce(usage.expire_at, usage.expires_at))
    IN  IF expRaw = Null THEN withTotals
        ELSE IF expRaw[1].t = "huge"
        THEN [withTotals EXCEPT !.raw = "fetch_error", !.expires = "Error"]
        ELSE IF expRaw[1].t = "millis"
        THEN [withTotals EXCEPT !.expires = IsoDate(expRaw[1].n)]
        ELSE [withTotals EXCEPT !.expires = expRaw[1].s]

(* ------------------------------ the cache ------------------------------ *)

\* A cache file is the sequence of its lines (content.split('\n')); a line
\* is the sequence of its tab-separated fields once trimmed (a blank line
\* has none); a field is one of:
\*   NumField(n)     the decimal text of n
\*   HashField(b)    the hex SHA-1 digest of the blob b
\*   B64Field(d)     the base64 text of the usage dump d
\*   JunkField       any other non-empty text
NumField(n) == [t |-> "num", n |-> n]
HashField(blob) == [t |-> "sha1", of |-> blob]
B64Field(dump) == [t |-> "b64", dump |-> dump]
JunkField == [t |-> "junk"]

CacheOf(lines) == [kind |-> "cache", lines |-> lines]

\* the KEY=value dump of one record: the value text of each key.  The text
\* of a number is written as the number; "" and Null are the empty text.
Dump(balanceNum, total, used, expires, raw) ==
  [BALANCE_NUM |-> balanceNum, TOTAL |-> total, USED |-> used,
   EXPIRES |-> expires, RAW |-> raw]

\* a text with no KEY=value line of the five keys
NoDump == Dump(Null, Null, Null, "", "")

\* the info lines writeCache builds for one record: `${u.balance ?? 0}` ...
DumpOf(u) ==
  Dump(Coalesce(u.balance, Num(0)), Coalesce(u.total, Num(0)),
       Coalesce(u.used, Num(0)), u.expires, u.raw)

\* parseUsageInfo: an empty or missing value reads as null, "?" or ""
ParseUsageInfo(dump) ==
  KeyUsage(IF dump.BALANCE_NUM # Null THEN dump.BALANCE_NUM ELSE Null,
           IF dump.TOTAL # Null THEN dump.TOTAL ELSE Null,
           IF dump.USED # Null THEN dump.USED ELSE Null,
           IF dump.EXPIRES # "" THEN dump.EXPIRES ELSE "?",
           IF dump.RAW # "" THEN dump.RAW ELSE "")

\* Buffer.from(b64, 'base64').toString('utf8'): Node decodes leniently and
\* never throws; text that is not the base64 of a dump decodes to bytes
\* that hold none of the five keys
Base64Decode(field) == IF field.t = "b64" THEN field.dump ELSE NoDump

\* what parseInt gives for a text that does not start with a digit
NaN == -1

\* parseInt(idxStr, 10)
ParseInt(field) == IF field.t = "num" THEN field.n ELSE NaN

\* Map.prototype.set
MapSet(map, k, v) == (k :> v) @@ map

EmptyMap == <<>>

\* the loop of readCache over lines[i..], i counted from 1
RECURSIVE ReadCacheLines(_, _, _)
ReadCacheLines(lines, i, result) ==
  IF i > Len(lines) THEN result
  ELSE LET line == lines[i]
       IN  IF line = <<>> \/ Len(line) < 2
           THEN ReadCacheLines(lines, i + 1, result)
           ELSE ReadCacheLines(lines, i + 1,
                  MapSet(result, ParseInt(line[1]),
                         ParseUsageInfo(Base64Decode(line[2]))))

\* readCache that trusts only a cache whose second line is a digest
ReadCache_RejectsForeignTag(file) ==
  IF file = NoFile THEN EmptyMap
  ELSE IF Len(file.lines) < 3 THEN EmptyMap
  ELSE IF Len(file.lines[2]) # 1 \/ file.lines[2][1].t # "sha1" THEN EmptyMap
  ELSE ReadCacheLines(file.lines, 3, EmptyMap)

\* readCache: the map from cached position to record; empty when the file
\* is missing or has fewer than three lines
ReadCache(file) ==
  IF file = NoFile THEN EmptyMap
  ELSE IF Len(file.lines) < 3 THEN EmptyMap
  ELSE ReadCacheLines(file.lines, 3, EmptyMap)

\* writeCache with its positions counted from 1: `${i + 1}\t${b64}`
WriteCache_OneBased(blobNow, usages) ==
  CacheOf(<< <<NumField(0)>>, <<HashField(blobNow)>> >>
          \o [i \in 1..Len(usages) |->
                <<NumField(i), B64Field(DumpOf(usages[i]))>>])

\* writeCache: the timestamp (the clock is not modelled), the digest of the
\* store blob now on disk, and one line per record, positions from 0
WriteCache(blobNow, usages) ==
  CacheOf(<< <<NumField(0)>>, <<HashField(blobNow)>> >>
          \o [i \in 1..Len(usages) |->
                <<NumField(i - 1), B64Field(DumpOf(usages[i]))>>])

(* ---------------------------- operations ------------------------------ *)

\* the request fetchUsage(key) sends: a GET of API_URL with the header
\* Authorization: Bearer <key>
Request(key) == [url |-> "API_URL", bearer |-> key]

\* keys.map(k => fetchUsage(k)): one request per key
Requests(keys) == [i \in 1..Len(keys) |-> Request(keys[i])]

\* what an operation hands back, the files it leaves, and the requests it
\* has sent to the endpoint
Outcome(kf, cur, cf, success, error, count, fetched, requests) ==
  [keysFile |-> kf, currentFile |-> cur, cacheFile |-> cf,
   success |-> success, error |-> error, count |-> count, fetched |-> fetched,
   requests |-> requests]

\* the catch clause of an operation: {success: false, error}, nothing written
Rejected(kf, cur, cf, error) == Outcome(kf, cur, cf, FALSE, error, 0, <<>>, <<>>)

\* the range check with its lower bound off by one: index < 0
OutOfRange_ZeroAllowed(index, keys) == index < 0 \/ index > Len(keys)

\* the range check of removeKey and useKey: index < 1 || index > keys.length
OutOfRange(index, keys) == index < 1 \/ index > Len(keys)

\* keys.filter((_, i) => i + 1 !== index)
RECURSIVE FilterIndex(_, _, _)
FilterIndex(keys, i, index) ==
  IF i > Len(keys) THEN <<>>
  ELSE IF i # index THEN <<keys[i]>> \o FilterIndex(keys, i + 1, index)
  ELSE FilterIndex(keys, i + 1, index)

RemoveAt(keys, index) == FilterIndex(keys, 1, index)

\* the inner try of addKey: the keys and the cache as read, both empty when
\* the store cannot be read or decrypted
ExistingOf(kf, cf) ==
  LET r == ReadKeys(kf)
  IN  IF r.ok THEN [keys |-> r.keys, cache |-> ReadCache(cf)]
      ELSE [keys |-> <<>>, cache |-> EmptyMap]

\* existingCache.get(i) || {all unknown}, i counted from 0
CarriedOver(cache, i) == IF i \in DOMAIN cache THEN cache[i] ELSE UnknownUsage

\* the old entries looked up one position too far: existingCache.get(i + 1)
MergedUsages_ShiftedLookup(existingKeys, existingCache, newUsage) ==
  [i \in 1..Len(existingKeys) |-> CarriedOver(existingCache, i)] \o <<newUsage>>

\* the usages addKey hands to writeCache
MergedUsages(existingKeys, existingCache, newUsage) ==
  [i \in 1..Len(existingKeys) |-> CarriedOver(existingCache, i - 1)] \o <<newUsage>>

\* addKey that saves through saveKeys, so that the old cache is gone when
\* the new one is built
AddKeyOutcome_ViaSaveKeys(kf, cur, cf, key, salt, resp) ==
  LET existing == ExistingOf(kf, cf)
      newKeys == Append(existing.keys, key)
      encrypted == EncryptKeys(newKeys, salt)
      newUsage == FetchUsage(resp)
      usages == MergedUsages(existing.keys, EmptyMap, newUsage)
  IN  Outcome(encrypted, cur, WriteCache(encrypted, usages),
              TRUE, "", Len(newKeys), <<newUsage>>, <<Request(key)>>)

\* addKey that queries the endpoint for every key of the new list
AddKeyOutcome_RefetchesAll(kf, cur, cf, key, salt, resp) ==
  LET existing == ExistingOf(kf, cf)
      newKeys == Append(existing.keys, key)
      encrypted == EncryptKeys(newKeys, salt)
      newUsage == FetchUsage(resp)
      usages == MergedUsages(existing.keys, existing.cache, newUsage)
  IN  Outcome(encrypted, cur, WriteCache(encrypted, usages),
              TRUE, "", Len(newKeys), <<newUsage>>, Requests(newKeys))

\* addKey(key): the store is rewritten with the key appended (the cache is
\* not invalidated), the usage of the new key is fetched, and the cache is
\* rewritten with the old entries and the new record
AddKeyOutcome(kf, cur, cf, key, salt, resp) ==
  LET existing == ExistingOf(kf, cf)
      newKeys == Append(existing.keys, key)
      encrypted == EncryptKeys(newKeys, salt)
      newUsage == FetchUsage(resp)
      usages == MergedUsages(existing.keys, existing.cache, newUsage)
  IN  Outcome(encrypted, cur, WriteCache(encrypted, usages),
              TRUE, "", Len(newKeys), <<newUsage>>, <<Request(key)>>)

\* saveKeys: write the store, then unlink the cache
SaveKeys(keys, salt) == [keysFile |-> EncryptKeys(keys, salt), cacheFile |-> NoFile]

\* removeKey without its write of '1' to the pointer file
RemoveKeyOutcome_NoReset(kf, cur, cf, index, salt) ==
  LET r == ReadKeys(kf)
  IN  IF ~r.ok THEN Rejected(kf, cur, cf, r.error)
      ELSE IF OutOfRange(index, r.keys) THEN Rejected(kf, cur, cf, "out of range")
      ELSE LET newKeys == RemoveAt(r.keys, index)
               saved == SaveKeys(newKeys, salt)
           IN  Outcome(saved.keysFile, cur, saved.cacheFile,
                       TRUE, "", Len(newKeys), <<>>, <<>>)

\* removeKey that writes the store without unlinking the cache
RemoveKeyOutcome_KeepsCache(kf, cur, cf, index, salt) ==
  LET r == ReadKeys(kf)
  IN  IF ~r.ok THEN Rejected(kf, cur, cf, r.error)
      ELSE IF OutOfRange(index, r.keys) THEN Rejected(kf, cur, cf, "out of range")
      ELSE LET newKeys == RemoveAt(r.keys, index)
               saved == SaveKeys(newKeys, salt)
           IN  Outcome(saved.keysFile, CurrentOf(1), cf,
                       TRUE, "", Len(newKeys), <<>>, <<>>)

\* removeKey(index)
RemoveKeyOutcome(kf, cur, cf, index, salt) ==
  LET r == ReadKeys(kf)
  IN  IF ~r.ok THEN Rejected(kf, cur, cf, r.error)
      ELSE IF OutOfRange(index, r.keys) THEN Rejected(kf, cur, cf, "out of range")
      ELSE LET newKeys == RemoveAt(r.keys, index)
               saved == SaveKeys(newKeys, salt)
           IN  Outcome(saved.keysFile, CurrentOf(1), saved.cacheFile,
                       TRUE, "", Len(newKeys), <<>>, <<>>)

\* useKey that saves through saveKeys' path and so unlinks the cache
UseKeyOutcome_InvalidatesCache(kf, cur, cf, index) ==
  LET r == ReadKeys(kf)
  IN  IF ~r.ok THEN Rejected(kf, cur, cf, r.error)
      ELSE IF OutOfRange(index, r.keys) THEN Rejected(kf, cur, cf, "out of range")
      ELSE Outcome(kf, CurrentOf(index), NoFile, TRUE, "", index, <<>>, <<>>)

\* useKey(index)
UseKeyOutcome(kf, cur, cf, index) ==
  LET r == ReadKeys(kf)
  IN  IF ~r.ok THEN Rejected(kf, cur, cf, r.error)
      ELSE IF OutOfRange(index, r.keys) THEN Rejected(kf, cur, cf, "out of range")
      ELSE Outcome(kf, CurrentOf(index), cf, TRUE, "", index, <<>>, <<>>)

\* refreshCache that also writes '1' to the pointer file, as removeKey does
RefreshCacheOutcome_ResetsPointer(kf, cur, cf, resps) ==
  LET r == ReadKeys(kf)
  IN  IF ~r.ok THEN Rejected(kf, cur, cf, r.error)
      ELSE LET usages == [i \in 1..Len(r.keys) |-> FetchUsage(resps[i])]
           IN  Outcome(kf, CurrentOf(1), WriteCache(kf, usages), TRUE, "",
                       Len(r.keys), usages, Requests(r.keys))

\* refreshCache(): resps[i] is what the endpoint does with the request for
\* the i-th key
RefreshCacheOutcome(kf, cur, cf, resps) ==
  LET r == ReadKeys(kf)
  IN  IF ~r.ok THEN Rejected(kf, cur, cf, r.error)
      ELSE LET usages == [i \in 1..Len(r.keys) |-> FetchUsage(resps[i])]
           IN  Outcome(kf, cur, WriteCache(kf, usages), TRUE, "", Len(r.keys),
                       usages, Requests(r.keys))

\* one entry of getKeyList; usage is Null or <<record>>
KeyInfo(key, index, isCurrent, usage) ==
  [key |-> key, index |-> index, isCurrent |-> isCurrent, usage |-> usage]

\* cache.get(idx) || null
UsageAt(cache, idx) == IF idx \in DOMAIN cache THEN <<cache[idx]>> ELSE Null

\* getKeyList that compares the pointer with the zero-based position
GetKeyList_ZeroBasedCurrent(kf, cur, cf) ==
  LET r == ReadKeys(kf)
      currentIndex == ReadCurrentIndex(cur)
      cache == ReadCache(cf)
  IN  IF ~r.ok THEN <<>>
      ELSE [i \in 1..Len(r.keys) |->
              KeyInfo(r.keys[i], i, i - 1 = currentIndex, UsageAt(cache, i - 1))]

\* getKeyList(): the entries, and [] when the store cannot be read or
\* decrypted (the error is logged, not returned)
GetKeyList(kf, cur, cf) ==
  LET r == ReadKeys(kf)
      currentIndex == ReadCurrentIndex(cur)
      cache == ReadCache(cf)
  IN  IF ~r.ok THEN <<>>
      ELSE [i \in 1..Len(r.keys) |->
              KeyInfo(r.keys[i], i, i = currentIndex, UsageAt(cache, i - 1))]

(* ------------------------------- inputs ------------------------------- *)

\* the secrets add is called with: two plain keys, the empty text, and a
\* text that starts with a tab
Secrets ==
  { <<"A">>, <<"B">>, <<>>, <<TAB, "A">> }

\* the indices remove and use are called with
Indices == 0..(MaxKeys + 1)

GoodUsage ==
  Usage(<<Section(Num(5), Null, Null, Num(2), Null, Null, Num(1))>>, Null, Null, Null,
        <<ExpText("2026-01-01")>>, Null, Null)

\* what the endpoint does with a request of add or refresh: it fails, or it
\* answers 200 with a usage section
Responses ==
  { Failed, Response(200, Body(<<GoodUsage>>)) }

(* ------------------------------ the system ---------------------------- *)

\* the operation that ran last: its name, its argument, what it returned
\* (success, the count of its message, the entries of a listing) and the
\* records it fetched
Last(op, arg, success, count, fetched, listing, requests) ==
  [op |-> op, arg |-> arg, success |-> success, count |-> count,
   fetched |-> fetched, listing |-> listing, requests |-> requests]

Apply(op, arg, out) ==
  /\ keysFile' = out.keysFile
  /\ currentFile' = out.currentFile
  /\ cacheFile' = out.cacheFile
  /\ last' = Last(op, arg, out.success, out.count, out.fetched, <<>>, out.requests)
  /\ UNCHANGED <<calls, accepted, log>>

\* the list as the store file holds it ([] when unreadable)
StoredKeys(kf) == ReadKeys(kf).keys

\* one handler invocation in progress: the handler, the await it stands
\* at, its argument and its local variables (the keys and the cache it has
\* read, the usages it will write, the store blob it has hashed)
Call(op, pc, arg, keys, cache, usages, blob) ==
  [op |-> op, pc |-> pc, arg |-> arg, keys |-> keys, cache |-> cache,
   usages |-> usages, blob |-> blob]

Idle == Call("idle", "idle", <<>>, <<>>, EmptyMap, <<>>, NoFile)

NoCalls == [i \in 1..MaxCalls |-> Idle]

Init ==
  /\ keysFile = NoFile
  /\ currentFile = NoFile
  /\ cacheFile = NoFile
  /\ last = Last("none", <<>>, TRUE, 0, <<>>, <<>>, <<>>)
  /\ calls = NoCalls
  /\ accepted = 0
  /\ log = <<>>

\* keys:add
AddKey ==
  \E key \in Secrets, salt \in Salts, resp \in Responses :
    LET out == AddKeyOutcome(keysFile, currentFile, cacheFile, key, salt, resp)
    IN  /\ Len(StoredKeys(out.keysFile)) <= MaxKeys
        /\ Apply("add", key, out)

\* keys:remove
RemoveKey ==
  \E index \in Indices, salt \in Salts :
    Apply("remove", index,
          RemoveKeyOutcome(keysFile, currentFile, cacheFile, index, salt))

\* keys:use
UseKey ==
  \E index \in Indices :
    Apply("use", index, UseKeyOutcome(keysFile, currentFile, cacheFile, index))

\* keys:refresh
RefreshCache ==
  \E resps \in [1..Len(StoredKeys(keysFile)) -> Responses] :
    Apply("refresh", <<>>,
          RefreshCacheOutcome(keysFile, currentFile, cacheFile, resps))

\* keys:list
KeysList ==
  /\ last' = Last("list", <<>>, TRUE, 0, <<>>,
                  GetKeyList(keysFile, currentFile, cacheFile), <<>>)
  /\ UNCHANGED <<keysFile, currentFile, cacheFile, calls, accepted, log>>

Next == AddKey \/ RemoveKey \/ UseKey \/ RefreshCache \/ KeysList

Spec == Init /\ [][Next]_vars

(* --------------------- the files damaged from outside ------------------ *)

\* eight bytes that are not "Salted__"
BadMagic == <<"g", "a", "r", "b", "a", "g", "e", "!">>

\* the lines a damaged cache file can hold after its headers: a blank line,
\* a line without a tab, a line whose payload is not the base64 of a dump,
\* and a well-formed entry for position 1
TamperLines ==
  { <<>>,
    <<JunkField>>,
    <<NumField(0), JunkField>>,
    <<NumField(1), B64Field(DumpOf(FetchUsage(Failed)))>> }

\* the damaged cache files: an empty file (one empty line), a file of one
\* line, and two header lines followed by up to MaxBodyLines lines
TamperedCaches ==
  { CacheOf(<< <<>> >>), CacheOf(<< <<NumField(0)>> >>) }
  \cup { CacheOf(<< <<NumField(0)>>, <<JunkField>> >> \o body) :
           body \in UNION { [1..n -> TamperLines] : n \in 0..MaxBodyLines } }

\* a readable store file is damaged: its header, or its padding
CorruptStore ==
  /\ keysFile # NoFile
  /\ DecryptKeys(keysFile).ok
  /\ \/ keysFile' = [keysFile EXCEPT !.header = BadMagic]
     \/ keysFile' = [keysFile EXCEPT !.padOk = FALSE]
  /\ last' = Last("env", <<>>, TRUE, 0, <<>>, <<>>, <<>>)
  /\ UNCHANGED <<currentFile, cacheFile, calls, accepted, log>>

\* the cache file is replaced by a damaged one
TamperCache ==
  /\ \E file \in TamperedCaches : cacheFile' = file
  /\ last' = Last("env", <<>>, TRUE, 0, <<>>, <<>>, <<>>)
  /\ UNCHANGED <<keysFile, currentFile, calls, accepted, log>>

EnvNext == Next \/ CorruptStore \/ TamperCache

\* the operations, and the files damaged between them
EnvSpec == Init /\ [][EnvNext]_vars

(* ------------- fetchUsage and the store codec on their own ------------- *)

\* the status codes of a response
Statuses == {200, 204, 401, 404, 500}

\* the sections a usage object holds: with totalAllowance and overage, with
\* basicAllowance, with allowance, and with usage but no total
SectionSamples ==
  { Section(Num(5), Null, Null, Num(2), Null, Null, Num(1)),
    Section(Null, Num(4), Null, Null, Num(1), Null, Null),
    Section(Null, Null, Num(3), Null, Null, Num(3), Null),
    Section(Null, Null, Null, Null, Num(7), Null, Null) }

\* the expiry values a usage object holds
ExpSamples == { ExpMillis(1000), ExpText("2026-01-01"), ExpHuge }

\* a member that may be missing
Optional(S) == {Null} \cup { <<x>> : x \in S }

UsageSamples ==
  { Usage(standard, premium, Null, main, endDate, Null, expires_at) :
      standard \in Optional(SectionSamples),
      premium \in Optional({Section(Null, Num(4), Null, Null, Num(1), Null, Null)}),
      main \in Optional({Section(Null, Null, Null, Null, Num(7), Null, Null)}),
      endDate \in Optional(ExpSamples),
      expires_at \in Optional({ExpText("2026-01-01")}) }

\* what the endpoint can do with one request
AllResponses ==
  {Failed}
  \cup { Response(status, body) :
           status \in Statuses,
           body \in {BadBody} \cup { Body(usage) : usage \in Optional(UsageSamples) } }

\* the lists of up to MaxKeys secrets
RECURSIVE SeqsUpTo(_, _)
SeqsUpTo(S, n) ==
  IF n = 0 THEN { <<>> }
  ELSE LET shorter == SeqsUpTo(S, n - 1)
       IN  shorter \cup { Append(q, x) : q \in shorter, x \in S }

SecretLists == SeqsUpTo(Secrets, MaxKeys)

\* one call of fetchUsage
FetchOne ==
  /\ \E resp \in AllResponses :
       last' = Last("fetch", resp, TRUE, 0, <<FetchUsage(resp)>>, <<>>, <<>>)
  /\ UNCHANGED <<keysFile, currentFile, cacheFile, calls, accepted, log>>

\* encryptKeys on a list, and decryptKeys on the blob it made; listing
\* holds the keys read back
SaveLoad ==
  /\ \E keys \in SecretLists, salt \in Salts :
       LET r == DecryptKeys(EncryptKeys(keys, salt))
       IN  last' = Last("roundtrip", keys, r.ok, Len(r.keys), <<>>, r.keys, <<>>)
  /\ UNCHANGED <<keysFile, currentFile, cacheFile, calls, accepted, log>>

FunNext == FetchOne \/ SaveLoad

FunSpec == Init /\ [][FunNext]_vars

(* ------------------ the scenario remove, use, refresh, add -------------- *)

\* the store the scenario starts from, and the key it adds
ScenarioKeys == << <<"A">>, <<"B">>, <<"C">> >>
KeyD == <<"D">>

\* what the endpoint does with a request during the scenario
ScenarioResponses ==
  Responses
  \cup { Response(401, BadBody),
         Response(200, Body(Null)),
         Response(200, Body(<<Usage(Null, Null, Null, Null, <<ExpMillis(1000)>>, Null, Null)>>)) }

\* the store holds A, B, C and the pointer is 2; there is no cache, or one
\* that a refresh has written
ScenarioInit ==
  /\ keysFile \in { EncryptKeys(ScenarioKeys, salt) : salt \in Salts }
  /\ currentFile = CurrentOf(2)
  /\ cacheFile \in { NoFile }
       \cup { WriteCache(keysFile, [i \in 1..3 |-> FetchUsage(resp)]) : resp \in Responses }
  /\ last = Last("none", <<>>, TRUE, 0, <<>>, <<>>, <<>>)
  /\ calls = NoCalls
  /\ accepted = 0
  /\ log = <<>>

ScenarioRemove ==
  /\ last.op = "none"
  /\ \E salt \in Salts :
       Apply("remove", 1, RemoveKeyOutcome(keysFile, currentFile, cacheFile, 1, salt))

ScenarioUse ==
  /\ last.op = "remove"
  /\ Apply("use", 2, UseKeyOutcome(keysFile, currentFile, cacheFile, 2))

ScenarioRefresh ==
  /\ last.op = "use"
  /\ \E resps \in [1..Len(StoredKeys(keysFile)) -> ScenarioResponses] :
       Apply("refresh", <<>>,
             RefreshCacheOutcome(keysFile, currentFile, cacheFile, resps))

ScenarioAdd ==
  /\ last.op = "refresh"
  /\ \E salt \in Salts, resp \in ScenarioResponses :
       Apply("add", KeyD,
             AddKeyOutcome(keysFile, currentFile, cacheFile, KeyD, salt, resp))

ScenarioNext == ScenarioRemove \/ ScenarioUse \/ ScenarioRefresh \/ ScenarioAdd

ScenarioSpec == ScenarioInit /\ [][ScenarioNext]_vars

(* ---------------- the handlers interleaved at their awaits -------------- *)

\* ipcMain.handle runs a handler as its message arrives; an async handler
\* gives control back at each await, and the next message is then handled
\* while the first call is still in progress.  The steps below are the
\* awaits of addKey, removeKey, useKey and refreshCache that read or write
\* a file or wait for the endpoint.  fs.writeFile opens its file with the
\* flag 'w', which truncates it, and writes the data afterwards: two steps.

\* a file of zero bytes, as the store file, the pointer file (parseInt of
\* the empty text is NaN, and NaN || 1 is 1, as for the text "0") and the
\* cache file (''.split('\n') is one empty line)
EmptyBlob == Blob(<<>>, "", <<>>, FALSE)
EmptyCurrent == [kind |-> "current", n |-> 0]
EmptyCache == CacheOf(<< <<>> >>)

\* the secrets and the indices the interleaved handlers are called with
AsyncSecrets == { <<"A">>, <<"B">> }
AsyncIndices == 1..MaxKeys

\* the files when the interleaved handlers start: none, or a store of two
\* keys with the pointer at 2 and a cache written by a refresh
AsyncStores ==
  { [keysFile |-> NoFile, currentFile |-> NoFile, cacheFile |-> NoFile] }
  \cup { LET blob == EncryptKeys(<< <<"A">>, <<"B">> >>, salt)
         IN  [keysFile |-> blob, currentFile |-> CurrentOf(2),
              cacheFile |-> WriteCache(blob, [i \in 1..2 |-> FetchUsage(Failed)])] :
           salt \in Salts }

AsyncInit ==
  /\ \E files \in AsyncStores :
       /\ keysFile = files.keysFile
       /\ currentFile = files.currentFile
       /\ cacheFile = files.cacheFile
  /\ last = Last("none", <<>>, TRUE, 0, <<>>, <<>>, <<>>)
  /\ calls = NoCalls
  /\ accepted = 0
  /\ log = <<>>

Busy(i) == calls[i].op # "idle"

At(i, ops, pc) == calls[i].op \in ops /\ calls[i].pc = pc

\* the call in slot i goes on to the await pc with its locals changed
Goto(i, pc, keys, cache, usages, blob) ==
  calls' = [calls EXCEPT ![i] = Call(calls[i].op, pc, calls[i].arg,
                                      keys, cache, usages, blob)]

\* the call in slot i stays as it is but for its await
Advance(i, pc) ==
  Goto(i, pc, calls[i].keys, calls[i].cache, calls[i].usages, calls[i].blob)

\* what the log keeps of a call in progress: its handler, the await it
\* stands at, its argument and the keys it has read
Snapshot(call) ==
  [op |-> call.op, pc |-> call.pc, arg |-> call.arg,
   keys |-> IF call.op = "list" THEN <<>> ELSE call.keys]

\* the calls in progress other than the one in slot i
Others(i) == { Snapshot(calls[j]) : j \in { k \in 1..MaxCalls : k # i /\ Busy(k) } }

\* an entry of the log: a call is accepted, a call returns, or the process
\* dies, with the calls that are in progress beside it
Event(ev, op, arg, success, others) ==
  [ev |-> ev, op |-> op, arg |-> arg, success |-> success, others |-> others]

\* the call in slot i returns {success}
Finish(i, success) ==
  /\ calls' = [calls EXCEPT ![i] = Idle]
  /\ last' = Last(calls[i].op, calls[i].arg, success, 0, <<>>, <<>>, <<>>)
  /\ log' = Append(log, Event("return", calls[i].op, calls[i].arg, success, Others(i)))

\* a call of getKeyList: the files it has read so far, and the reads of
\* its Promise.all that are still pending
ListCall(pending, blob, current, cache) ==
  [op |-> "list", pc |-> "read", arg |-> <<>>, pending |-> pending,
   blob |-> blob, current |-> current, cache |-> cache]

\* a message keys:add, keys:remove, keys:use, keys:refresh or keys:list
\* arrives: its handler starts, whatever the other calls are doing
Accept ==
  /\ accepted < MaxAccepted
  /\ \E i \in 1..MaxCalls :
       /\ ~Busy(i)
       /\ \A j \in 1..(i - 1) : Busy(j)
       /\ \E call \in { Call("add", "readKeys", key, <<>>, EmptyMap, <<>>, NoFile) :
                          key \in AsyncSecrets }
                 \cup { Call(op, "readKeys", index, <<>>, EmptyMap, <<>>, NoFile) :
                          op \in {"remove", "use"}, index \in AsyncIndices }
                 \cup { Call("refresh", "readKeys", <<>>, <<>>, EmptyMap, <<>>, NoFile) }
                 \cup { ListCall({"keys", "current", "cache"}, NoFile, NoFile, NoFile) } :
            /\ calls' = [calls EXCEPT ![i] = call]
            /\ log' = Append(log, Event("accept", call.op, call.arg, TRUE, Others(i)))
  /\ accepted' = accepted + 1
  /\ UNCHANGED <<keysFile, currentFile, cacheFile, last>>

\* getKeyList: one of the three reads of its Promise.all completes
ListRead(i) ==
  /\ At(i, {"list"}, "read")
  /\ \E file \in calls[i].pending :
       LET c == calls[i]
           rest == c.pending \ {file}
       IN  calls' = [calls EXCEPT ![i] =
                       IF file = "keys" THEN ListCall(rest, keysFile, c.current, c.cache)
                       ELSE IF file = "current" THEN ListCall(rest, c.blob, currentFile, c.cache)
                       ELSE ListCall(rest, c.blob, c.current, cacheFile)]
  /\ UNCHANGED <<keysFile, currentFile, cacheFile, last, accepted, log>>

\* getKeyList: the three reads are in; the list is decrypted, zipped with
\* the pointer and the cache, and returned
ListReturn(i) ==
  /\ At(i, {"list"}, "read")
  /\ calls[i].pending = {}
  /\ calls' = [calls EXCEPT ![i] = Idle]
  /\ last' = Last("list", <<>>, TRUE, 0, <<>>,
                  GetKeyList(calls[i].blob, calls[i].current, calls[i].cache), <<>>)
  /\ log' = Append(log, Event("return", "list", <<>>, TRUE, Others(i)))
  /\ UNCHANGED <<keysFile, currentFile, cacheFile, accepted>>

\* addKey: readEncryptedKeys and decryptKeys inside the inner try
AddReadKeys(i) ==
  /\ At(i, {"add"}, "readKeys")
  /\ LET r == ReadKeys(keysFile)
     IN  IF r.ok
         THEN Goto(i, "readCache", r.keys, EmptyMap, <<>>, NoFile)
         ELSE Goto(i, "openKeys", <<>>, EmptyMap, <<>>, NoFile)
  /\ UNCHANGED <<keysFile, currentFile, cacheFile, last, accepted, log>>

\* addKey: existingCache = await readCache()
AddReadCache(i) ==
  /\ At(i, {"add"}, "readCache")
  /\ Goto(i, "openKeys", calls[i].keys, ReadCache(cacheFile), <<>>, NoFile)
  /\ UNCHANGED <<keysFile, currentFile, cacheFile, last, accepted, log>>

\* removeKey, useKey: read and decrypt the store, check the index
IndexedReadKeys(i) ==
  /\ At(i, {"remove", "use"}, "readKeys")
  /\ LET r == ReadKeys(keysFile)
     IN  IF ~r.ok \/ OutOfRange(calls[i].arg, r.keys)
         THEN Finish(i, FALSE)
         ELSE /\ IF calls[i].op = "remove"
                 THEN Goto(i, "openKeys", RemoveAt(r.keys, calls[i].arg),
                           EmptyMap, <<>>, NoFile)
                 ELSE Goto(i, "openCurrent", r.keys, EmptyMap, <<>>, NoFile)
              /\ UNCHANGED <<last, log>>
  /\ UNCHANGED <<keysFile, currentFile, cacheFile, accepted>>

\* refreshCache: read and decrypt the store
RefreshReadKeys(i) ==
  /\ At(i, {"refresh"}, "readKeys")
  /\ LET r == ReadKeys(keysFile)
     IN  IF ~r.ok
         THEN Finish(i, FALSE)
         ELSE Goto(i, "fetch", r.keys, EmptyMap, <<>>, NoFile) /\ UNCHANGED <<last, log>>
  /\ UNCHANGED <<keysFile, currentFile, cacheFile, accepted>>

\* fs.writeFile(KEYS_FILE, ...): the file is opened and truncated
OpenKeys(i) ==
  /\ At(i, {"add", "remove"}, "openKeys")
  /\ keysFile' = EmptyBlob
  /\ Advance(i, "writeKeys")
  /\ UNCHANGED <<currentFile, cacheFile, last, accepted, log>>

\* fs.writeFile(KEYS_FILE, ...): the blob is written.  addKey writes the
\* keys it read with its key appended, removeKey the keys it kept.
WriteKeys(i) ==
  /\ At(i, {"add", "remove"}, "writeKeys")
  /\ \E salt \in Salts :
       keysFile' = EncryptKeys(IF calls[i].op = "add"
                               THEN Append(calls[i].keys, calls[i].arg)
                               ELSE calls[i].keys, salt)
  /\ Advance(i, IF calls[i].op = "add" THEN "fetch" ELSE "unlinkCache")
  /\ UNCHANGED <<currentFile, cacheFile, last, accepted, log>>

\* saveKeys: invalidateCache
UnlinkCache(i) ==
  /\ At(i, {"remove"}, "unlinkCache")
  /\ cacheFile' = NoFile
  /\ Advance(i, "openCurrent")
  /\ UNCHANGED <<keysFile, currentFile, last, accepted, log>>

\* fs.writeFile(CURRENT_FILE, ...): the file is opened and truncated
OpenCurrent(i) ==
  /\ At(i, {"remove", "use"}, "openCurrent")
  /\ currentFile' = EmptyCurrent
  /\ Advance(i, "writeCurrent")
  /\ UNCHANGED <<keysFile, cacheFile, last, accepted, log>>

\* fs.writeFile(CURRENT_FILE, ...): '1' or String(index) is written, and
\* the call returns
WriteCurrent(i) ==
  /\ At(i, {"remove", "use"}, "writeCurrent")
  /\ currentFile' = CurrentOf(IF calls[i].op = "remove" THEN 1 ELSE calls[i].arg)
  /\ Finish(i, TRUE)
  /\ UNCHANGED <<keysFile, cacheFile, accepted>>

\* addKey: the usage of the new key is fetched and the usages are built
AddFetch(i) ==
  /\ At(i, {"add"}, "fetch")
  /\ \E resp \in Responses :
       Goto(i, "hashKeys", calls[i].keys, calls[i].cache,
            MergedUsages(calls[i].keys, calls[i].cache, FetchUsage(resp)), NoFile)
  /\ UNCHANGED <<keysFile, currentFile, cacheFile, last, accepted, log>>

\* refreshCache: Promise.all over the fetches of the keys it read
RefreshFetch(i) ==
  /\ At(i, {"refresh"}, "fetch")
  /\ \E resps \in [1..Len(calls[i].keys) -> Responses] :
       Goto(i, "hashKeys", calls[i].keys, EmptyMap,
            [k \in 1..Len(calls[i].keys) |-> FetchUsage(resps[k])], NoFile)
  /\ UNCHANGED <<keysFile, currentFile, cacheFile, last, accepted, log>>

\* writeCache: the store file is read for its digest; the read throws when
\* there is no store file, and the call returns {success: false}
HashKeys(i) ==
  /\ At(i, {"add", "refresh"}, "hashKeys")
  /\ IF keysFile = NoFile
     THEN Finish(i, FALSE)
     ELSE /\ Goto(i, "openCache", calls[i].keys, calls[i].cache,
                  calls[i].usages, keysFile)
          /\ UNCHANGED <<last, log>>
  /\ UNCHANGED <<keysFile, currentFile, cacheFile, accepted>>

\* fs.writeFile(CACHE_FILE, ...): the file is opened and truncated
OpenCache(i) ==
  /\ At(i, {"add", "refresh"}, "openCache")
  /\ cacheFile' = EmptyCache
  /\ Advance(i, "writeCache")
  /\ UNCHANGED <<keysFile, currentFile, last, accepted, log>>

\* fs.writeFile(CACHE_FILE, ...): the lines are written, and the call returns
WriteCacheFile(i) ==
  /\ At(i, {"add", "refresh"}, "writeCache")
  /\ cacheFile' = WriteCache(calls[i].blob, calls[i].usages)
  /\ Finish(i, TRUE)
  /\ UNCHANGED <<keysFile, currentFile, accepted>>

\* the process dies with calls in progress: the files stay as they are,
\* and the calls are gone when it is started again
Crash ==
  /\ \E i \in 1..MaxCalls : Busy(i)
  /\ calls' = NoCalls
  /\ last' = Last("crash", <<>>, FALSE, 0, <<>>, <<>>, <<>>)
  /\ log' = Append(log, Event("crash", "crash", <<>>, FALSE, Others(0)))
  /\ UNCHANGED <<keysFile, currentFile, cacheFile, accepted>>

AsyncNext ==
  \/ Accept
  \/ Crash
  \/ \E i \in 1..MaxCalls :
       \/ AddReadKeys(i) \/ AddReadCache(i)
       \/ IndexedReadKeys(i) \/ RefreshReadKeys(i)
       \/ OpenKeys(i) \/ WriteKeys(i) \/ UnlinkCache(i)
       \/ OpenCurrent(i) \/ WriteCurrent(i)
       \/ AddFetch(i) \/ RefreshFetch(i)
       \/ HashKeys(i) \/ OpenCache(i) \/ WriteCacheFile(i)
       \/ ListRead(i) \/ ListReturn(i)

AsyncSpec == AsyncInit /\ [][AsyncNext]_vars

(* --------------- the usage fetches of add and refresh, in time ---------- *)

\* fetchUsage has sent its request and armed its 4-second timer
Waiting == [phase |-> "waiting"]

\* fetchUsage has received an ok status, has cleared its timer, and awaits
\* response.json()
Reading(resp) == [phase |-> "body", response |-> resp]

\* fetchUsage has returned the record usage
Settled(usage) == [phase |-> "settled", usage |-> usage]

\* the keys whose usage the call fetches: the new key alone for addKey,
\* every key it read for refreshCache
Fetches(call) == IF call.op = "add" THEN 1 ELSE Len(call.keys)

\* the call in slot i goes on with the fetch of its key k in state fetch
SetFetch(i, k, fetch) ==
  Goto(i, "fetching", calls[i].keys, calls[i].cache,
       [calls[i].usages EXCEPT ![k] = fetch], NoFile)

\* the fetch of key k of the call in slot i is in the phase phase
FetchAt(i, k, phase) ==
  /\ At(i, {"add", "refresh"}, "fetching")
  /\ k \in 1..Len(calls[i].usages)
  /\ calls[i].usages[k].phase = phase

\* the calls accepted in a run of the timed fetches
MaxLiveAccepted == 1

\* what the endpoint does with a request: the connection fails, or it
\* answers 200 with a usage body, with a body that is not JSON or with a
\* body with no usage member, or it answers 401
LiveResponses ==
  Responses \cup { Response(200, BadBody), Response(200, Body(Null)),
                    Response(401, BadBody) }

\* a message keys:add or keys:refresh arrives and its handler starts
LiveAccept ==
  /\ accepted < MaxLiveAccepted
  /\ \E i \in 1..MaxCalls :
       /\ ~Busy(i)
       /\ \A j \in 1..(i - 1) : Busy(j)
       /\ \E call \in { Call("add", "readKeys", key, <<>>, EmptyMap, <<>>, NoFile) :
                          key \in AsyncSecrets }
                 \cup { Call("refresh", "readKeys", <<>>, <<>>, EmptyMap, <<>>, NoFile) } :
            /\ calls' = [calls EXCEPT ![i] = call]
            /\ log' = Append(log, Event("accept", call.op, call.arg, TRUE, Others(i)))
  /\ accepted' = accepted + 1
  /\ UNCHANGED <<keysFile, currentFile, cacheFile, last>>

\* fetchUsage is called for each key: the timers are armed and the
\* requests are sent
Send(i) ==
  /\ At(i, {"add", "refresh"}, "fetch")
  /\ Goto(i, "fetching", calls[i].keys, calls[i].cache,
          [k \in 1..Fetches(calls[i]) |-> Waiting], NoFile)
  /\ UNCHANGED <<keysFile, currentFile, cacheFile, last, accepted, log>>

\* the endpoint answers a request, or the connection fails: fetch() settles
\* and the timer is cleared; on a status that is not ok, and on a failure,
\* fetchUsage returns at once
Answer(i, k) ==
  /\ FetchAt(i, k, "waiting")
  /\ \E resp \in LiveResponses :
       IF resp # Failed /\ ResponseOk(resp)
       THEN SetFetch(i, k, Reading(resp))
       ELSE SetFetch(i, k, Settled(FetchUsage(resp)))
  /\ UNCHANGED <<keysFile, currentFile, cacheFile, last, accepted, log>>

\* the 4-second timer fires while fetch() is pending: controller.abort()
\* rejects it, and fetchUsage returns the fetch_error record
AbortTimeout(i, k) ==
  /\ FetchAt(i, k, "waiting")
  /\ SetFetch(i, k, Settled(FetchUsage(Failed)))
  /\ UNCHANGED <<keysFile, currentFile, cacheFile, last, accepted, log>>

\* the body arrives: response.json() settles and fetchUsage returns
BodyArrives(i, k) ==
  /\ FetchAt(i, k, "body")
  /\ SetFetch(i, k, Settled(FetchUsage(calls[i].usages[k].response)))
  /\ UNCHANGED <<keysFile, currentFile, cacheFile, last, accepted, log>>

\* every fetchUsage of the call has returned: the await of addKey, or the
\* Promise.all of refreshCache, settles and the usages are built
FetchesSettle(i) ==
  /\ At(i, {"add", "refresh"}, "fetching")
  /\ \A k \in 1..Len(calls[i].usages) : calls[i].usages[k].phase = "settled"
  /\ IF calls[i].op = "add"
     THEN Goto(i, "hashKeys", calls[i].keys, calls[i].cache,
               MergedUsages(calls[i].keys, calls[i].cache, calls[i].usages[1].usage),
               NoFile)
     ELSE Goto(i, "hashKeys", calls[i].keys, EmptyMap,
               [k \in 1..Len(calls[i].usages) |-> calls[i].usages[k].usage], NoFile)
  /\ UNCHANGED <<keysFile, currentFile, cacheFile, last, accepted, log>>

\* the steps the process itself takes for the call in slot i
LiveStep(i) ==
  \/ AddReadKeys(i) \/ AddReadCache(i) \/ RefreshReadKeys(i)
  \/ OpenKeys(i) \/ WriteKeys(i)
  \/ Send(i) \/ FetchesSettle(i)
  \/ HashKeys(i) \/ OpenCache(i) \/ WriteCacheFile(i)

\* the fetches a call can have in flight
FetchSlots == 1..(MaxKeys + MaxLiveAccepted)

LiveNext ==
  \/ LiveAccept
  \/ \E i \in 1..MaxCalls :
       \/ LiveStep(i)
       \/ \E k \in FetchSlots :
            \/ AbortTimeout(i, k) \/ Answer(i, k) \/ BodyArrives(i, k)

\* the event loop runs every step of the process that is ready, and the
\* armed timers of a call fire (a timer that has fired is armed no more, so
\* each of them fires); nothing is assumed of the endpoint
LiveFairness ==
  /\ \A i \in 1..MaxCalls : WF_vars(LiveStep(i))
  /\ \A i \in 1..MaxCalls : WF_vars(\E k \in FetchSlots : AbortTimeout(i, k))

LiveSpec == AsyncInit /\ [][LiveNext]_vars /\ LiveFairness

(* ------------------------------- claims -------------------------------- *)

\* what list() shows before and after a step
ListBefore == GetKeyList(keysFile, currentFile, cacheFile)
ListAfter == GetKeyList(keysFile', currentFile', cacheFile')

\* the store can be listed: there is no store file yet, or it decrypts
Listable(kf) == kf = NoFile \/ DecryptKeys(kf).ok

\* the store file exists and does not decrypt
Undecryptable(kf) == kf # NoFile /\ ~DecryptKeys(kf).ok

\* the cache read back holds exactly the positions 0..n-1
Populated(cf, n) == DOMAIN ReadCache(cf) = 0..(n - 1)

\* C1: after add(s) on a store whose list has length n (n = 0 when there is
\* no store file), list() has n+1 entries, the last one with key s, and the
\* n earlier entries keep their key text and order.
C1_AddAppends ==
  [][ (last'.op = "add" /\ Listable(keysFile)) =>
        /\ Len(ListAfter) = Len(ListBefore) + 1
        /\ ListAfter[Len(ListAfter)].key = last'.arg
        /\ \A k \in 1..Len(ListBefore) : ListAfter[k].key = ListBefore[k].key
    ]_vars

\* C2: with a cache populated at the positions 0..n-1 of a list of length
\* n >= 1, a successful add leaves a cache of exactly n+1 entries whose
\* positions 0..n-1 hold the records they held and whose position n holds
\* the record fetched for the new key; a successful remove leaves no cache
\* file, and the cache read back is the empty map.
C2_CacheAppendedOrDestroyed ==
  [][ LET n == Len(ListBefore)
          old == ReadCache(cacheFile)
          new == ReadCache(cacheFile')
      IN  (/\ last'.op \in {"add", "remove"} /\ last'.success
           /\ n >= 1 /\ Populated(cacheFile, n)) =>
            /\ last'.op = "add" =>
                 /\ DOMAIN new = 0..n
                 /\ \A p \in 0..(n - 1) : new[p] = old[p]
                 /\ new[n] = last'.fetched[1]
            /\ last'.op = "remove" =>
                 /\ cacheFile' = NoFile
                 /\ new = EmptyMap
    ]_vars

\* C2's case: an add has run on a list of one key whose cache held a fetched
\* record at position 0, and has fetched another record for the new key
C2_Witness ==
  /\ last.op = "add" /\ last.success
  /\ Len(StoredKeys(keysFile)) = 2
  /\ DOMAIN ReadCache(cacheFile) = 0..1
  /\ ReadCache(cacheFile)[0].raw = "fetch_error"
  /\ ReadCache(cacheFile)[1].raw = ""

\* C3: after a successful remove the pointer read back is 1; after a
\* successful use(j) it is j.
C3_PointerAfterRemoveAndUse ==
  /\ (last.op = "remove" /\ last.success) => ReadCurrentIndex(currentFile) = 1
  /\ (last.op = "use" /\ last.success) => ReadCurrentIndex(currentFile) = last.arg

\* C3's case: use(2) has succeeded on a list of two keys
C3_Witness ==
  /\ last.op = "use" /\ last.success /\ last.arg = 2
  /\ Len(StoredKeys(keysFile)) = 2

\* C4: whenever the list is not empty, the pointer read by getActive() lies
\* in 1..len(list).
C4_PointerInRange ==
  Len(StoredKeys(keysFile)) >= 1 =>
    ReadCurrentIndex(currentFile) \in 1..Len(StoredKeys(keysFile))

\* C5: remove(i) and use(j) with an index outside 1..len(list) return
\* success = false and leave the list, the pointer and the cache as they were.
C5_BadIndexChangesNothing ==
  [][ (/\ last'.op \in {"remove", "use"}
       /\ (last'.arg < 1 \/ last'.arg > Len(ListBefore))) =>
        /\ ~last'.success
        /\ keysFile' = keysFile
        /\ currentFile' = currentFile
        /\ cacheFile' = cacheFile
    ]_vars

\* C5's case: use(3) has failed on a list of two keys that has a pointer
\* file and a cache file
C5_Witness ==
  /\ last.op = "use" /\ ~last.success /\ last.arg = 3
  /\ Len(StoredKeys(keysFile)) = 2
  /\ currentFile # NoFile
  /\ cacheFile # NoFile

\* C6: when the store file exists and does not decrypt, add, remove and use
\* return success = false and leave the store file as it is.
C6_UndecryptableStoreUntouched ==
  [][ (last'.op \in {"add", "remove", "use"} /\ Undecryptable(keysFile)) =>
        /\ ~last'.success
        /\ keysFile' = keysFile
    ]_vars

\* C7: a successful remove(i) on a list L of length n leaves L without its
\* i-th element: n-1 entries, the others in their order.
C7_RemoveDeletesExactlyOne ==
  [][ (last'.op = "remove" /\ last'.success) =>
        LET i == last'.arg
        IN  /\ Len(ListAfter) = Len(ListBefore) - 1
            /\ \A k \in 1..Len(ListAfter) :
                 ListAfter[k].key = ListBefore[IF k < i THEN k ELSE k + 1].key
    ]_vars

\* C8: list() on no store file gives the empty list, and on a store file
\* that does not decrypt gives an outcome other than the empty list.
C8_ListTellsCorruptFromMissing ==
  last.op = "list" =>
    /\ keysFile = NoFile => last.listing = <<>>
    /\ Undecryptable(keysFile) => last.listing # <<>>

\* position p has a well-formed entry in the cache file: a line after the
\* two headers made of the decimal p, a tab and the base64 of a dump
WellFormedAt(cf, p) ==
  /\ cf # NoFile
  /\ Len(cf.lines) >= 3
  /\ \E i \in 3..Len(cf.lines) :
       /\ Len(cf.lines[i]) >= 2
       /\ cf.lines[i][1] = NumField(p)
       /\ cf.lines[i][2].t = "b64"

\* C9: whatever the cache file holds, list() returns every key of the list
\* in order, with usage null at each position that has no well-formed cache
\* entry.
C9_CacheNeverBlocksListing ==
  (last.op = "list" /\ ReadKeys(keysFile).ok) =>
    /\ Len(last.listing) = Len(StoredKeys(keysFile))
    /\ \A k \in 1..Len(last.listing) :
         /\ last.listing[k].key = StoredKeys(keysFile)[k]
         /\ ~WellFormedAt(cacheFile, k - 1) => last.listing[k].usage = Null

\* C10: after refresh() on a list of n >= 1 keys the cache read back holds
\* exactly the positions 0..n-1, position p with the record fetched for the
\* key at position p+1, and the file holds nothing else.
C10_RefreshRewritesCache ==
  LET n == Len(StoredKeys(keysFile))
  IN  (last.op = "refresh" /\ last.success /\ n >= 1) =>
        /\ Len(last.fetched) = n
        /\ ReadCache(cacheFile) = [p \in 0..(n - 1) |-> last.fetched[p + 1]]
        /\ Len(cacheFile.lines) = n + 2

\* C10's case: a refresh of two keys, one fetch failed and one answered
C10_Witness ==
  /\ last.op = "refresh" /\ last.success
  /\ Len(StoredKeys(keysFile)) = 2
  /\ last.fetched[1].raw = ""
  /\ last.fetched[2].raw = "fetch_error"

\* C11: refresh() returns success = true whatever the fetches do, also on an
\* empty list and when there is no store file yet.
C11_RefreshAlwaysSucceeds ==
  (last.op = "refresh" /\ Listable(keysFile)) => last.success

\* C12: a successful use(j) leaves the store file and the cache file as they
\* were: list() shows the same keys in the same order, and the cache read
\* back holds the same records at the same positions.
C12_UseTouchesOnlyPointer ==
  [][ (last'.op = "use" /\ last'.success) =>
        /\ keysFile' = keysFile
        /\ cacheFile' = cacheFile
        /\ StoredKeys(keysFile') = StoredKeys(keysFile)
        /\ ReadCache(cacheFile') = ReadCache(cacheFile)
    ]_vars

\* C12's case: use(2) has moved the pointer on a list of two keys whose
\* cache holds both positions
C12_Witness ==
  /\ last.op = "use" /\ last.success
  /\ ReadCurrentIndex(currentFile) = 2
  /\ Len(StoredKeys(keysFile)) = 2
  /\ Populated(cacheFile, 2)

\* C13: add, refresh and list leave the pointer read by getActive() as it
\* was, whether they succeed or fail.
C13_PointerOnlyMovedByUseAndRemove ==
  [][ last'.op \in {"add", "refresh", "list"} =>
        /\ currentFile' = currentFile
        /\ ReadCurrentIndex(currentFile') = ReadCurrentIndex(currentFile)
    ]_vars

\* C13's case: a refresh has succeeded while the pointer stood at 2
C13_Witness ==
  /\ last.op = "refresh" /\ last.success
  /\ currentFile = CurrentOf(2)
  /\ Len(StoredKeys(keysFile)) = 2

\* C19: when add runs on a list whose old cache has no entry for a position
\* p < len(oldList), the cache read back after the add holds the all-unknown
\* record at p: balance, total and used null, expires "?", raw empty.
C19_MissingEntriesReadBackUnknown ==
  [][ (last'.op = "add" /\ last'.success /\ Listable(keysFile)) =>
        \A p \in 0..(Len(StoredKeys(keysFile)) - 1) :
          p \notin DOMAIN ReadCache(cacheFile) =>
            /\ p \in DOMAIN ReadCache(cacheFile')
            /\ ReadCache(cacheFile')[p] = UnknownUsage
    ]_vars

\* C20: list() returns one entry per key of the list; the k-th entry has
\* index k, the k-th key, isCurrent exactly when k is the pointer read by
\* getActive(), and as usage the cache record at position k-1, or null when
\* the cache has no such position; at most one entry is current.
C20_ListZipsListPointerCache ==
  last.op = "list" =>
    LET keys == StoredKeys(keysFile)
        cache == ReadCache(cacheFile)
        entries == last.listing
    IN  /\ Len(entries) = Len(keys)
        /\ \A k \in 1..Len(entries) :
             /\ entries[k].index = k
             /\ entries[k].key = keys[k]
             /\ entries[k].isCurrent <=> (k = ReadCurrentIndex(currentFile))
             /\ entries[k].usage =
                  IF (k - 1) \in DOMAIN cache THEN <<cache[k - 1]>> ELSE Null
        /\ Cardinality({k \in 1..Len(entries) : entries[k].isCurrent}) <= 1

\* C20's case: a listing of two different keys, the second one current, the
\* first with a cached record and the second with a different one
C20_Witness ==
  /\ last.op = "list"
  /\ Len(last.listing) = 2
  /\ last.listing[1].key # last.listing[2].key
  /\ ~last.listing[1].isCurrent /\ last.listing[2].isCurrent
  /\ last.listing[1].usage # Null
  /\ last.listing[2].usage # Null
  /\ last.listing[1].usage # last.listing[2].usage

C15_CrashLeavesWholeFiles ==
  last.op = "crash" =>
    /\ keysFile # EmptyBlob
    /\ cacheFile # EmptyCache

\* C16: fetch always returns a record of the five members: for a failed or
\* aborted request raw is "fetch_error" and expires is "Error"; for a
\* response with a status S outside 200..299 raw is "http_S" and expires
\* is "Invalid key" ("http_401" for status 401).
C16_FetchNeverRaises ==
  last.op = "fetch" =>
    LET resp == last.arg
        u == last.fetched[1]
    IN  /\ Len(last.fetched) = 1
        /\ DOMAIN u = {"balance", "total", "used", "expires", "raw"}
        /\ resp = Failed => (u.raw = "fetch_error" /\ u.expires = "Error")
        /\ (resp # Failed /\ resp.status \notin 200..299) =>
             /\ u.raw = "http_" \o ToString(resp.status)
             /\ u.expires = "Invalid key"
        /\ (resp # Failed /\ resp.status = 401) => u.raw = "http_401"

\* C16's case: a request answered with status 401 has been fetched
C16_Witness ==
  /\ last.op = "fetch"
  /\ last.arg # Failed
  /\ last.arg.status = 401
  /\ last.fetched[1].raw = "http_401"

\* C17: for every list of secrets, decryptKeys on what encryptKeys made of
\* it succeeds and returns the list itself: same length, order and text.
C17_StoreRoundTrip ==
  last.op = "roundtrip" => (last.success /\ last.listing = last.arg)

\* C18: from the store [A, B, C] with pointer 2, remove(1) leaves the list
\* [B, C], pointer 1 and an empty cache; use(2) then leaves pointer 2;
\* refresh() and then add(D) leave the list [B, C, D], pointer 2 and a
\* cache of exactly the positions 0..2, positions 0 and 1 with the records
\* the refresh fetched and position 2 with the record fetched for D.
C18_Scenario ==
  [][ LET listAfter == StoredKeys(keysFile')
          pointerAfter == ReadCurrentIndex(currentFile')
          old == ReadCache(cacheFile)
          new == ReadCache(cacheFile')
      IN  /\ last'.op = "remove" =>
               /\ last'.success
               /\ listAfter = << <<"B">>, <<"C">> >>
               /\ pointerAfter = 1
               /\ new = EmptyMap
          /\ last'.op = "use" =>
               /\ last'.success
               /\ listAfter = << <<"B">>, <<"C">> >>
               /\ pointerAfter = 2
          /\ last'.op = "refresh" =>
               /\ last'.success
               /\ DOMAIN new = 0..1
               /\ pointerAfter = 2
          /\ last'.op = "add" =>
               /\ last'.success
               /\ listAfter = << <<"B">>, <<"C">>, KeyD >>
               /\ pointerAfter = 2
               /\ DOMAIN new = 0..2
               /\ \A p \in 0..1 : new[p] = old[p] /\ new[p] = last.fetched[p + 1]
               /\ new[2] = last'.fetched[1]
    ]_vars

\* C18's case: the scenario has run to its end, the refresh having fetched
\* a failure for B and the add a usage section for D
C18_Witness ==
  /\ last.op = "add" /\ last.success
  /\ StoredKeys(keysFile) = << <<"B">>, <<"C">>, KeyD >>
  /\ ReadCurrentIndex(currentFile) = 2
  /\ DOMAIN ReadCache(cacheFile) = 0..2
  /\ ReadCache(cacheFile)[0].raw = "fetch_error"
  /\ ReadCache(cacheFile)[2].raw = ""
  /\ ReadCache(cacheFile)[2].balance = Num(2)

\* C21: add(s) sends exactly one request to the endpoint, with s as its
\* bearer token, whatever the length of the list and whether or not a cache
\* exists; no request carries a key the list already held.
C21_AddSendsOneRequest ==
  [][ last'.op = "add" =>
        /\ Len(last'.requests) = 1
        /\ last'.requests[1] = Request(last'.arg)
        /\ Len(last'.fetched) = 1
    ]_vars

\* C21's case: B has been added to a list that held A, and the one request
\* sent carried B
C21_Witness ==
  /\ last.op = "add" /\ last.success
  /\ StoredKeys(keysFile) = << <<"A">>, <<"B">> >>
  /\ last.requests = << Request(<<"B">>) >>

\* the cache file with its second line, the integrity tag, replaced
Retagged(cf, tag) == CacheOf([cf.lines EXCEPT ![2] = <<tag>>])

\* the tag of the cache file is the digest of the store file now on disk
TagMatches(cf, kf) ==
  /\ cf # NoFile
  /\ Len(cf.lines) >= 2
  /\ cf.lines[2] = <<HashField(kf)>>

\* C22: reading the cache and list() give the same records whether the tag
\* on the second line is the digest of the store file now on disk or
\* anything else: no cache is rejected for its tag.
C22_TagIgnoredOnRead ==
  (cacheFile # NoFile /\ Len(cacheFile.lines) >= 2) =>
    \A tag \in {HashField(keysFile), JunkField} :
      /\ ReadCache(Retagged(cacheFile, tag)) = ReadCache(cacheFile)
      /\ last.op = "list" =>
           last.listing = GetKeyList(keysFile, currentFile, Retagged(cacheFile, tag))

\* C22's case: a listing that shows a cached record although the tag of the
\* cache file is not the digest of the store file
C22_Witness ==
  /\ last.op = "list"
  /\ cacheFile # NoFile
  /\ ~TagMatches(cacheFile, keysFile)
  /\ \E k \in 1..Len(last.listing) : last.listing[k].usage # Null

\* the response is a 2xx response with a JSON body
Answered(resp) ==
  resp # Failed /\ resp.status \in 200..299 /\ resp.body # BadBody

\* the section fetch reads: the first present one of standard, premium,
\* total and main; Null when the usage object has none of them
ChosenSection(usage) ==
  IF usage.standard # Null THEN usage.standard
  ELSE IF usage.premium # Null THEN usage.premium
  ELSE IF usage.total # Null THEN usage.total
  ELSE usage.main

\* C23: for a 2xx response whose body has none of the sections standard,
\* premium, total and main, fetch returns a record whose raw is "no_usage".
C23_NoSectionGivesNoUsage ==
  (last.op = "fetch" /\ Answered(last.arg)) =>
    LET usage == last.arg.body.usage
    IN  (usage = Null \/ ChosenSection(usage[1]) = Null) =>
          last.fetched[1].raw = "no_usage"

\* C24: for a 2xx response whose chosen section has a total T, fetch
\* returns total = T, used = base usage + overage (0 when absent) and
\* balance = T - used; when the chosen section has no total, balance, total
\* and used are all the defaults the record started with.
C24_TotalsUsedBalance ==
  (/\ last.op = "fetch" /\ Answered(last.arg)
   /\ last.arg.body.usage # Null
   /\ ChosenSection(last.arg.body.usage[1]) # Null) =>
    LET sec == ChosenSection(last.arg.body.usage[1])[1]
        u == last.fetched[1]
        T == IF sec.totalAllowance # Null THEN sec.totalAllowance
             ELSE IF sec.basicAllowance # Null THEN sec.basicAllowance
             ELSE sec.allowance
        base == IF sec.orgTotalTokensUsed # Null THEN sec.orgTotalTokensUsed[1]
                ELSE IF sec.used # Null THEN sec.used[1]
                ELSE IF sec.tokensUsed # Null THEN sec.tokensUsed[1]
                ELSE 0
        overage == IF sec.orgOverageUsed # Null THEN sec.orgOverageUsed[1] ELSE 0
    IN  IF T # Null
        THEN /\ u.total = T
             /\ u.used = Num(base + overage)
             /\ u.balance = Num(T[1] - (base + overage))
        ELSE /\ u.total = Num(0)
             /\ u.used = Num(0)
             /\ u.balance = Num(0)

\* C24's case: a section with total 5, base usage 2 and overage 1 has been
\* fetched as total 5, used 3, balance 2
C24_Witness ==
  /\ last.op = "fetch" /\ Answered(last.arg)
  /\ last.arg.body.usage # Null
  /\ ChosenSection(last.arg.body.usage[1]) =
       <<Section(Num(5), Null, Null, Num(2), Null, Null, Num(1))>>
  /\ last.fetched[1].total = Num(5)
  /\ last.fetched[1].used = Num(3)
  /\ last.fetched[1].balance = Num(2)

\* the cache read back holds no position, or exactly the positions of the
\* list kf holds
Aligned(cf, kf) ==
  \/ DOMAIN ReadCache(cf) = {}
  \/ DOMAIN ReadCache(cf) = 0..(Len(StoredKeys(kf)) - 1)

\* C26: after any sequence of add, remove, use and refresh calls from an
\* empty store, each run to its end, the cache is absent or empty, or holds
\* exactly the positions 0..len(list)-1.
C26_CacheAlignedWithList ==
  Aligned(cacheFile, keysFile)

\* C25: every add and every refresh that has started returns in the end,
\* given only that the steps of the process run and the armed timers fire.
C25_AddAndRefreshComplete ==
  \A i \in 1..MaxCalls :
    (calls[i].op \in {"add", "refresh"}) ~> (calls[i].op = "idle")

\* no call is in progress
AllIdle == \A i \in 1..MaxCalls : ~Busy(i)

\* the process has not died
NoCrash == \A k \in 1..Len(log) : log[k].ev # "crash"

\* the successful returns of the handler op in the log
Returned(op) ==
  { k \in 1..Len(log) : log[k].ev = "return" /\ log[k].op = op /\ log[k].success }

\* a remove has returned while an add or a refresh stood at its usage
\* fetch, and that add or refresh has returned afterwards
RemoveReturnedDuringFetch ==
  \E k \in Returned("remove") :
    \E o \in log[k].others :
      /\ o.op \in {"add", "refresh"}
      /\ o.pc = "fetch"
      /\ \E m \in Returned(o.op) : m > k /\ log[m].arg = o.arg

\* the cache read back holds no position beyond the last key of the list
\* kf holds
NoMorePositionsThanKeys(cf, kf) ==
  \A pos \in DOMAIN ReadCache(cf) : pos < Len(StoredKeys(kf))

\* C27: when a remove has returned while an add or a refresh was awaiting
\* its usage fetch, then, once all calls have returned, the cache is absent
\* or does not hold more positions than the list has keys after the remove.
C27_RemoveDuringFetchKeepsCacheAligned ==
  (AllIdle /\ NoCrash /\ RemoveReturnedDuringFetch) =>
    NoMorePositionsThanKeys(cacheFile, keysFile)

\* the second of two adds was accepted while the first had read the store
\* and not yet written it; first is what the log kept of the first add
SecondAddAccepted(k, first) ==
  /\ log[k].ev = "accept" /\ log[k].op = "add"
  /\ first \in log[k].others
  /\ first.op = "add"
  /\ first.pc \in {"readCache", "openKeys"}

\* the secrets of the list keys
SecretsOf(keys) == { keys[p] : p \in 1..Len(keys) }

\* C28: when two adds overlap, the second accepted while the first has read
\* the store and not yet written it, then, once both have returned, the list
\* holds every secret it held before and both new secrets.
C28_OverlappingAddsBothKept ==
  \A k \in 1..Len(log) : \A first \in log[k].others :
    (/\ SecondAddAccepted(k, first)
     /\ AllIdle /\ NoCrash
     /\ Cardinality(Returned("add")) = 2) =>
      (SecretsOf(first.keys) \cup {first.arg, log[k].arg})
        \subseteq SecretsOf(StoredKeys(keysFile))

\* the listing that has just returned overlapped a remove, or was made
\* after the process died with a remove in progress
ListMetRemove ==
  \/ \E k \in 1..Len(log) :
       /\ log[k].op = "list"
       /\ \E o \in log[k].others : o.op = "remove"
  \/ \E k \in 1..Len(log) :
       /\ log[k].op = "remove"
       /\ \E o \in log[k].others : o.op = "list"
  \/ \E k \in 1..Len(log) :
       /\ log[k].ev = "crash"
       /\ \E o \in log[k].others : o.op = "remove"
       /\ \E m \in (k + 1)..Len(log) : log[m].ev = "accept" /\ log[m].op = "list"

\* C29: a list() that overlaps a remove, or that runs after a crash in the
\* middle of a remove, does not return a non-empty list in which no entry
\* is current because the stored pointer exceeds the length of the list.
C29_ShrunkenListNeverWithOldPointer ==
  (/\ last.op = "list"
   /\ log # <<>> /\ log[Len(log)].ev = "return" /\ log[Len(log)].op = "list"
   /\ ListMetRemove) =>
    (last.listing # <<>> => \E k \in 1..Len(last.listing) : last.listing[k].isCurrent)

\* C30: after any sequence of add, remove, use and refresh calls from an
\* empty store, each run to its end, a cache file that exists carries on
\* its second line the digest of the store file then on disk.
C30_TagIsDigestOfStore ==
  cacheFile # NoFile => TagMatches(cacheFile, keysFile)

\* C30's case: an add has rewritten the store of one key and then the
\* cache, whose tag is the digest of the store of two keys
C30_Witness ==
  /\ last.op = "add"
  /\ Len(StoredKeys(keysFile)) = 2
  /\ cacheFile # NoFile
  /\ cacheFile.lines[2] = <<HashField(keysFile)>>
  /\ DOMAIN ReadCache(cacheFile) = 0..1

====
